---- MODULE Spec2Model ----
(***************************************************************************)
(* Model of the workflow engine of the writing assistant backend:          *)
(* core/workflow_engine.py (the five stage tasks, start, stop, automatic   *)
(* rollback) and api/routes/workflow.py (the HTTP surface of start, stop   *)
(* and rollback).                                                          *)
(*                                                                         *)
(* Reading of the source taken by the model:                               *)
(*  - the stage tasks run with the engine's collaborators (llm_client,     *)
(*    rollback_to_draft) and an AsyncSession built with                    *)
(*    expire_on_commit=False, so a loaded WorkflowDocument keeps the       *)
(*    attribute values it was loaded with;                                 *)
(*  - the database and the broker are reliable; the LLM gateway may raise; *)
(*  - a stage execution is split at its one long suspension, the call to   *)
(*    the LLM / validator / analyzer: "begin" runs up to the commit of the *)
(*    Running node, "finish" runs from the result of the call to the end;  *)
(*  - the broker hands jobs out in FIFO order and any number of jobs may   *)
(*    be executing at once (the code has no per-document lock).            *)
(***************************************************************************)
EXTENDS Integers, Sequences, FiniteSets, TLC

\* ------------------------------------------------------------------ bounds
MaxNodes == 5       \* rows of workflow_nodes
MaxJobs == 2        \* jobs queued or executing at one time
RetryNodes == 7     \* rows of workflow_nodes in the one-job-at-a-time specification
RetryJobs == 1      \* jobs queued or executing at one time in that specification
MaxCitations == 2   \* citations in a text given to validate_bibliography
ConcurrentNodes == 10  \* rows of workflow_nodes in the two-pipeline specification
ConcurrentJobs == 2    \* jobs queued or executing at one time in that specification
MaxConnections == 3    \* websocket connections ever opened
MaxEvents == 2         \* events ever published
DocumentsNodes == 5        \* rows of workflow_nodes in the two-document specification
DocumentsJobs == 2         \* jobs queued or executing at one time in that specification
DocumentsConnections == 2  \* websocket connections ever opened in that specification
MaxResolves == 3           \* calls of validate_doi
MaxTicks == 3              \* steps of the clock
TickSeconds == 43200       \* seconds the clock advances in one step
CacheTicks == 2            \* steps of the clock in the cache specification
LiveNodes == 6             \* rows of workflow_nodes in the liveness specification
LiveJobs == 1              \* tasks in flight in the liveness specification
RollbackNodes == 5         \* rows of workflow_nodes in the rollback specification
RollbackJobs == 2          \* tasks in flight in the rollback specification
MaxTextLen == 4            \* characters of an analysed text
MaxDoiTokens == 3          \* tokens of a string given to clean_doi
DocumentsEvents == 1       \* events ever published in that specification

\* --------------------------------------------------------------- constants
GrammarErrorCeiling == 5
CitationRateNum == 8
CitationRateDen == 10
RelevanceScoreFloor == 80
total_phases == 5
CitationExpire == 86400    \* cache_citation(..., expire=86400)
CrossrefSearchExpire == 3600
WorkflowStatusExpire == 300
LlmResponseExpire == 7200
ReadabilityExpire == 3600
DefaultExpire == 3600      \* set(key, value, expire=3600)
ConnectionEstablished == 0  \* the confirmation message in a socket's received list

\* WorkflowStatus
IDLE == "idle"
PLANNING == "planning"
DRAFTING == "drafting"
CITATION_CHECK == "citation_check"
GRAMMAR_CHECK == "grammar_check"
READABILITY_CHECK == "readability_check"
DONE == "done"
FAILED == "failed"
WorkflowStatus ==
  {IDLE, PLANNING, DRAFTING, CITATION_CHECK, GRAMMAR_CHECK, READABILITY_CHECK, DONE, FAILED}

\* NodeType (the stage types; UserEdit and Plugin nodes are never created by the engine)
PLAN == "Plan"
DRAFT == "Draft"
CITATION == "Citation"
GRAMMAR == "Grammar"
READABILITY == "Readability"
NodeType == {PLAN, DRAFT, CITATION, GRAMMAR, READABILITY}

\* NodeStatus
PENDING == "pending"
RUNNING == "running"
PASS == "pass"
FAIL == "fail"
NodeStatus == {PENDING, RUNNING, PASS, FAIL}

\* ------------------------------------------------------------------ inputs
Users == {"u1", "u2"}
DocIds == {"d1", "d2"}              \* "d2" is an id with no row
\* who asks for which document: the owner, another user, an id with no row
Requests == {<<"u1", "d1">>, <<"u2", "d1">>, <<"u1", "d2">>}
NodeIds == {1, 2, 3}                \* the node ids a rollback request may name
Prompts == {"p1"}
Outlines == {"o1"}                  \* what generate_outline may return
Drafts == {"c1"}                    \* what generate_content may return
Corrected == {"g1"}                 \* a corrected text check_grammar may return
GrammarErrorCounts == {5, 6}
Scores == {69, 70, 71}              \* flesch_score of the analyzer
CitationCounts == {<<0, 0>>, <<5, 4>>, <<5, 3>>}  \* <<total, valid>>
TaskIds == {"t1"}                   \* ids the broker gives to submitted tasks

\* the configurations a document is created with or a start request carries
LoopConfig ==
  {[readability_threshold |-> 70, max_retries |-> 1],
   [readability_threshold |-> 71, max_retries |-> 2]}
NoConfig == [none |-> TRUE]
NoTask == "none"
NoDocument == [none |-> TRUE]
NoResult == [none |-> TRUE]

\* what the CrossRef request of search_crossref may come to: an exception or a
\* status other than 200, or 200 with the works found (best match first)
SearchOutcomes ==
  {[status |-> "error", items |-> <<>>],
   [status |-> "ok", items |-> <<>>],
   [status |-> "ok", items |-> <<[score |-> 79]>>],
   [status |-> "ok", items |-> <<[score |-> 80]>>],
   [status |-> "ok", items |-> <<[score |-> 81]>>]}

\* the citations extract_citations_from_text finds: "[n]" and "(Name, YYYY)";
\* an author-year citation carries what its CrossRef search will come to
Citations ==
  {[type |-> "numbered", search |-> [status |-> "ok", items |-> <<>>]]}
    \cup {[type |-> "author_year", search |-> o] : o \in SearchOutcomes}

RECURSIVE SeqsUpTo(_, _)
SeqsUpTo(S, n) ==
  IF n = 0 THEN {<<>>}
  ELSE LET shorter == SeqsUpTo(S, n - 1)
       IN shorter \cup {Append(q, x) : q \in shorter, x \in S}

VARIABLES
  docs,       \* table workflow_documents: id -> row
  nodes,      \* table workflow_nodes in created_at order; a node's id is its index
  queue,      \* the broker's queue of submitted stage jobs
  running,    \* stage executions suspended in their LLM / validator / analyzer call
  response,   \* the last HTTP response of the workflow routes
  citations,  \* validate_bibliography: the citations extracted from its text
  results,    \* validate_bibliography: what it returned, NoResult before the call
  active_connections,      \* ConnectionManager: the connection ids with a websocket
  document_subscriptions,  \* ConnectionManager: document id -> set of connection ids
  connection_documents,    \* ConnectionManager: connection id -> document id
  sockets,     \* the websockets ever accepted: open or closed, and what the client received
  broadcasts,  \* calls of broadcast_to_document suspended in a send_text
  published,   \* the calls of broadcast_to_document in call order (an event's id is its index)
  available,   \* CacheManager: TRUE with Redis, FALSE with the in-process dict
  cache,       \* the cache store: key -> value and expiry time
  now,         \* the clock, in seconds
  resolved,    \* the calls of validate_doi that have returned, in order
  doi_string,  \* a string given to validate_doi for cleaning
  normalized,  \* its clean_doi, NotCleaned before it is computed
  text,        \* a text given to analyze_text
  analysis     \* the ReadabilityMetrics returned for it, NoResult before the call

workflowVars == <<docs, nodes, queue, running, response>>
validatorVars == <<citations, results>>
busVars ==
  <<active_connections, document_subscriptions, connection_documents, sockets,
    broadcasts, published>>
cacheVars == <<available, cache, now, resolved>>
pureVars == <<doi_string, normalized, text, analysis>>

vars == <<workflowVars, validatorVars, busVars, cacheVars, pureVars>>

\* ------------------------------------------------------------------ helpers
Job(task, d, arg) == [task |-> task, document_id |-> d, arg |-> arg]

WorkflowNode(d, type, content) ==
  [document_id |-> d, type |-> type, status |-> RUNNING, content |-> content,
   retry_count |-> 0, metrics |-> NoResult]

\* a committed attribute write: the ORM emits the column only when the value
\* differs from the one the object was loaded with
OrmSet(loaded, current, value) == IF value = loaded THEN current ELSE value

Load(d) == IF d \in DOMAIN docs THEN docs[d] ELSE NoDocument

NodesOf(d) == {i \in 1..Len(nodes) : nodes[i].document_id = d}

Execution(job, node, document) ==
  [task |-> job.task, document_id |-> job.document_id, arg |-> job.arg,
   node |-> node, document |-> document]

\* the workflow tables after create_workflow_document, nothing submitted yet
InitWorkflow ==
  /\ \E cfg \in LoopConfig :
       docs = [d \in {"d1"} |->
                 [user_id |-> "u1", status |-> IDLE, content |-> "", config |-> cfg]]
  /\ nodes = <<>>
  /\ queue = <<>>
  /\ running = {}
  /\ response = [op |-> "none", code |-> 0, success |-> FALSE, task_id |-> NoTask]

\* ConnectionManager() and the sockets: nobody connected, nothing published
InitBus ==
  /\ active_connections = {}
  /\ document_subscriptions = <<>>
  /\ connection_documents = <<>>
  /\ sockets = <<>>
  /\ broadcasts = {}
  /\ published = <<>>

\* the cache as the workflow specifications hold it: Redis reachable, unused
IdleCache ==
  /\ available = TRUE
  /\ cache = <<>>
  /\ now = 0
  /\ resolved = <<>>

\* the value of `normalized` before clean_doi is computed
NotCleaned == <<"none">>

\* no string and no text under analysis
IdlePure ==
  /\ doi_string = <<>>
  /\ normalized = NotCleaned
  /\ text = <<>>
  /\ analysis = NoResult

Init ==
  /\ InitWorkflow
  /\ citations = <<>>
  /\ results = NoResult
  /\ InitBus
  /\ IdleCache
  /\ IdlePure

\* ---------------------------------------------------------- pure functions
\* validate_bibliography's summary of a text with `total` citations of which
\* `valid` were counted valid; validation_rate is the fraction <<num, den>>
validate_bibliography(total, valid) ==
  [total_citations |-> total,
   valid_citations |-> valid,
   validation_rate |-> IF total > 0 THEN <<valid, total>> ELSE <<0, 1>>]

\* search_crossref: the works of a 200 answer, [] for anything else
search_crossref(outcome) ==
  IF outcome.status = "ok" THEN outcome.items ELSE <<>>

\* the branch of validate_bibliography's loop that counts a citation valid
CitationCountedValid(citation) ==
  IF citation.type = "numbered"
    THEN TRUE
    ELSE LET search_results == search_crossref(citation.search)
         IN search_results # <<>> /\ search_results[1].score > RelevanceScoreFloor

RECURSIVE valid_citations(_)
valid_citations(cs) ==
  IF cs = <<>> THEN 0
  ELSE valid_citations(Tail(cs)) + (IF CitationCountedValid(Head(cs)) THEN 1 ELSE 0)

\* r < num/den for a fraction r = <<n, d>> with d > 0
RateBelow(r, num, den) == r[1] * den < num * r[2]

\* mutant: a text without citations is not exempted
CitationGateFails_no_exemption(validation_result) ==
  RateBelow(validation_result.validation_rate, CitationRateNum, CitationRateDen)

\* mutant: five errors already fail
GrammarGateFails_at_ceiling(grammar_errors) == grammar_errors >= GrammarErrorCeiling

\* the gate predicates of the three checking stages (TRUE = the gate fails)
CitationGateFails(validation_result) ==
  /\ RateBelow(validation_result.validation_rate, CitationRateNum, CitationRateDen)
  /\ validation_result.total_citations > 0

GrammarGateFails(grammar_errors) == grammar_errors > GrammarErrorCeiling

ReadabilityGateFails(readability_score, readability_threshold) ==
  readability_score < readability_threshold

\* mutant: .order_by(WorkflowNode.created_at) without desc()
LatestPassPlan_ascending(ns, d) ==
  LET S == {i \in 1..Len(ns) :
              ns[i].document_id = d /\ ns[i].type = PLAN /\ ns[i].status = PASS}
  IN IF S = {} THEN 0 ELSE CHOOSE i \in S : \A j \in S : i <= j

\* the Plan node rollback_to_draft selects: type Plan, status Pass, latest created_at
LatestPassPlan(ns, d) ==
  LET S == {i \in 1..Len(ns) :
              ns[i].document_id = d /\ ns[i].type = PLAN /\ ns[i].status = PASS}
  IN IF S = {} THEN 0 ELSE CHOOSE i \in S : \A j \in S : j <= i

\* rollback_to_draft: the queue after the call, given the node table it reads
rollback_to_draft(q, ns, d) ==
  IF LatestPassPlan(ns, d) # 0
    THEN Append(q, Job("draft_document", d, ns[LatestPassPlan(ns, d)].content))
    ELSE q

\* WorkflowEngine.start_workflow: UPDATE ... SET status = PLANNING, then send_task
start_workflow_docs(ds, d) ==
  [x \in DOMAIN ds |-> IF x = d THEN [ds[x] EXCEPT !.status = PLANNING] ELSE ds[x]]

\* mutant: the Plan task is sent without the prompt
start_workflow_queue_no_prompt(q, d, user_prompt) == Append(q, Job("plan_document", d, ""))

start_workflow_queue(q, d, user_prompt) == Append(q, Job("plan_document", d, user_prompt))

\* mutant: the UPDATE of stop_workflow without its WHERE clause
stop_workflow_docs_unfiltered(ds, d) ==
  [x \in DOMAIN ds |-> [ds[x] EXCEPT !.status = IDLE]]

\* WorkflowEngine.stop_workflow: UPDATE ... SET status = IDLE
stop_workflow_docs(ds, d) ==
  [x \in DOMAIN ds |-> IF x = d THEN [ds[x] EXCEPT !.status = IDLE] ELSE ds[x]]

\* WorkflowEngine.get_workflow_status: progress is completed_phases /
\* total_phases * 100, kept as the fraction <<numerator, denominator>>
get_workflow_status(d) ==
  IF d \notin DOMAIN docs
    THEN [success |-> FALSE, status |-> "", progress |-> <<0, 1>>]
    ELSE LET completed_phases ==
               Cardinality({i \in NodesOf(d) : nodes[i].status = PASS})
         IN [success |-> TRUE, status |-> docs[d].status,
             progress |-> <<completed_phases * 100, total_phases>>]

\* the ownership check of the routes
OwnedDocument(user, d) == d \in DOMAIN docs /\ docs[d].user_id = user

\* the status the start and stop routes answer with when the document is not
\* found: the HTTPException(404) is raised inside "try" and the handler
\* "except Exception" turns it into HTTPException(500)
StartStopNotFoundCode == 500

\* ------------------------------------------------------------ HTTP routes
\* POST /api/workflow/start
StartRoute(user, d, prompt, config, maxJobs) ==
  IF ~OwnedDocument(user, d)
    THEN /\ response' = [op |-> "start", code |-> StartStopNotFoundCode,
                         success |-> FALSE, task_id |-> NoTask]
         /\ UNCHANGED <<docs, nodes, queue, running, citations, results, busVars, cacheVars, pureVars>>
    ELSE /\ Len(queue) + Cardinality(running) < maxJobs
         /\ docs' = start_workflow_docs(
                      IF config # NoConfig
                        THEN [docs EXCEPT ![d].config = config]
                        ELSE docs, d)
         /\ queue' = start_workflow_queue(queue, d, prompt)
         /\ \E tid \in TaskIds :
              response' = [op |-> "start", code |-> 200, success |-> TRUE,
                           task_id |-> tid]
         /\ UNCHANGED <<nodes, running, citations, results, busVars, cacheVars, pureVars>>

\* POST /api/workflow/{document_id}/stop
StopRoute(user, d) ==
  IF ~OwnedDocument(user, d)
    THEN /\ response' = [op |-> "stop", code |-> StartStopNotFoundCode,
                         success |-> FALSE, task_id |-> NoTask]
         /\ UNCHANGED <<docs, nodes, queue, running, citations, results, busVars, cacheVars, pureVars>>
    ELSE /\ docs' = stop_workflow_docs(docs, d)
         /\ response' = [op |-> "stop", code |-> 200, success |-> TRUE,
                         task_id |-> NoTask]
         /\ UNCHANGED <<nodes, queue, running, citations, results, busVars, cacheVars, pureVars>>

\* mutant: the delete of the later nodes is carried out
RollbackRoute_deleting(user, d, node_id) ==
  /\ OwnedDocument(user, d)
  /\ node_id \in NodesOf(d)
  /\ nodes' = SubSeq(nodes, 1, node_id)
  /\ response' = [op |-> "rollback", code |-> 200, success |-> TRUE, task_id |-> NoTask]
  /\ UNCHANGED <<docs, queue, running, citations, results, busVars, cacheVars, pureVars>>

\* POST /api/workflow/{document_id}/rollback/{node_id}: 404 for a document or node
\* that is not found; otherwise select(...).delete() raises (a Select has no
\* delete), nothing is written and the handler answers 500
RollbackRoute(user, d, node_id) ==
  /\ response' =
       [op |-> "rollback",
        code |-> IF ~OwnedDocument(user, d) THEN 404
                 ELSE IF ~(node_id \in NodesOf(d)) THEN 404
                 ELSE 500,
        success |-> FALSE, task_id |-> NoTask]
  /\ UNCHANGED <<docs, nodes, queue, running, citations, results, busVars, cacheVars, pureVars>>

\* ------------------------------------------------------------ stage tasks
\* the first half of a stage: the job is taken from the broker, the document is
\* loaded where the task loads it, the Running node is committed
Begin(task, type, loads, maxNodes) ==
  /\ queue # <<>>
  /\ Head(queue).task = task
  /\ Len(nodes) < maxNodes
  /\ queue' = Tail(queue)
  /\ LET job == Head(queue)
         document == IF loads THEN Load(job.document_id) ELSE NoDocument
     IN IF loads /\ document = NoDocument
          THEN UNCHANGED <<nodes, running>>      \* ValueError: not found
          ELSE /\ nodes' = Append(nodes, WorkflowNode(job.document_id, type, job.arg))
               /\ running' = running \cup {Execution(job, Len(nodes) + 1, document)}
  /\ UNCHANGED <<docs, response, citations, results, busVars, cacheVars, pureVars>>

plan_document_begin(maxNodes) == Begin("plan_document", PLAN, TRUE, maxNodes)
draft_document_begin(maxNodes) == Begin("draft_document", DRAFT, TRUE, maxNodes)
check_citations_begin(maxNodes) == Begin("check_citations", CITATION, FALSE, maxNodes)
check_grammar_begin(maxNodes) == Begin("check_grammar", GRAMMAR, FALSE, maxNodes)
check_readability_begin(maxNodes) == Begin("check_readability", READABILITY, TRUE, maxNodes)

\* mutant: the except branch leaves the node as it is
StageRaises_unmarked(e) ==
  /\ running' = running \ {e}
  /\ UNCHANGED <<docs, nodes, queue, response, citations, results, busVars, cacheVars, pureVars>>

\* the except branch of a stage: the node is marked Fail and nothing else is written
StageRaises(e) ==
  /\ nodes' = [nodes EXCEPT ![e.node].status = FAIL]
  /\ running' = running \ {e}
  /\ UNCHANGED <<docs, queue, response, citations, results, busVars, cacheVars, pureVars>>

\* mutant: the Plan stage hands over to the Citation stage
plan_document_finish_skips_draft(e, outline) ==
  /\ e.task = "plan_document"
  /\ nodes' = [nodes EXCEPT ![e.node].status = PASS, ![e.node].content = outline]
  /\ queue' = Append(queue, Job("check_citations", e.document_id, outline))
  /\ running' = running \ {e}
  /\ UNCHANGED <<docs, response, citations, results, busVars, cacheVars, pureVars>>

\* plan_document after generate_outline returned `outline`
plan_document_finish(e, outline) ==
  /\ e.task = "plan_document"
  /\ nodes' = [nodes EXCEPT ![e.node].status = PASS, ![e.node].content = outline]
  /\ queue' = Append(queue, Job("draft_document", e.document_id, outline))
  /\ running' = running \ {e}
  /\ UNCHANGED <<docs, response, citations, results, busVars, cacheVars, pureVars>>

\* draft_document after generate_content returned `content`
draft_document_finish(e, content) ==
  /\ e.task = "draft_document"
  /\ nodes' = [nodes EXCEPT ![e.node].status = PASS, ![e.node].content = content]
  /\ docs' = [docs EXCEPT
       ![e.document_id].content = OrmSet(e.document.content, @, content),
       ![e.document_id].status = OrmSet(e.document.status, @, CITATION_CHECK)]
  /\ queue' = Append(queue, Job("check_citations", e.document_id, content))
  /\ running' = running \ {e}
  /\ UNCHANGED <<response, citations, results, busVars, cacheVars, pureVars>>

\* check_citations after validate_bibliography returned
check_citations_finish(e, validation_result) ==
  /\ e.task = "check_citations"
  /\ running' = running \ {e}
  /\ IF CitationGateFails(validation_result)
       THEN LET max_retries == docs[e.document_id].config.max_retries
                failed == [nodes EXCEPT ![e.node].status = FAIL]
            IN IF failed[e.node].retry_count < max_retries
                 THEN /\ nodes' = [failed EXCEPT ![e.node].retry_count = @ + 1]
                      /\ queue' = rollback_to_draft(queue, nodes', e.document_id)
                 ELSE /\ nodes' = failed            \* ValueError: max retries
                      /\ UNCHANGED queue
       ELSE /\ nodes' = [nodes EXCEPT
                 ![e.node].status = PASS,
                 ![e.node].metrics =
                    [citation_count |-> validation_result.total_citations]]
            /\ queue' = Append(queue, Job("check_grammar", e.document_id, e.arg))
  /\ UNCHANGED <<docs, response, citations, results, busVars, cacheVars, pureVars>>

\* check_grammar after llm_client.check_grammar returned
check_grammar_finish(e, grammar_errors, corrected_content) ==
  /\ e.task = "check_grammar"
  /\ running' = running \ {e}
  /\ IF GrammarGateFails(grammar_errors)
       THEN LET max_retries == docs[e.document_id].config.max_retries
            IN /\ nodes' = [nodes EXCEPT ![e.node].status = FAIL,
                                         ![e.node].retry_count = @ + 1]
               /\ IF nodes'[e.node].retry_count < max_retries
                    THEN queue' = rollback_to_draft(queue, nodes', e.document_id)
                    ELSE UNCHANGED queue            \* ValueError: max retries
       ELSE /\ nodes' = [nodes EXCEPT ![e.node].status = PASS,
                                      ![e.node].content = corrected_content,
                                      ![e.node].metrics = [grammar_errors |-> grammar_errors]]
            /\ queue' = Append(queue, Job("check_readability", e.document_id, corrected_content))
  /\ UNCHANGED <<docs, response, citations, results, busVars, cacheVars, pureVars>>

\* mutant: the document is written before the gate is evaluated
check_readability_finish_early_write(e, readability_score) ==
  /\ e.task = "check_readability"
  /\ running' = running \ {e}
  /\ docs' = [docs EXCEPT
       ![e.document_id].status = OrmSet(e.document.status, @, DONE),
       ![e.document_id].content = OrmSet(e.document.content, @, e.arg)]
  /\ nodes' = [nodes EXCEPT
       ![e.node].status =
          IF ReadabilityGateFails(readability_score, e.document.config.readability_threshold)
            THEN FAIL ELSE PASS,
       ![e.node].metrics = [readability_score |-> readability_score]]
  /\ UNCHANGED <<queue, response, citations, results, busVars, cacheVars, pureVars>>

\* check_readability after get_readability_report returned
check_readability_finish(e, readability_score) ==
  /\ e.task = "check_readability"
  /\ running' = running \ {e}
  /\ IF ReadabilityGateFails(readability_score, e.document.config.readability_threshold)
       THEN /\ nodes' = [nodes EXCEPT ![e.node].status = FAIL,
                                      ![e.node].retry_count = @ + 1,
                                      ![e.node].metrics = [readability_score |-> readability_score]]
            /\ IF nodes'[e.node].retry_count < e.document.config.max_retries
                 THEN queue' = rollback_to_draft(queue, nodes', e.document_id)
                 ELSE UNCHANGED queue               \* ValueError: max retries
            /\ UNCHANGED docs
       ELSE /\ nodes' = [nodes EXCEPT ![e.node].status = PASS,
                                      ![e.node].metrics = [readability_score |-> readability_score]]
            /\ docs' = [docs EXCEPT
                 ![e.document_id].status = OrmSet(e.document.status, @, DONE),
                 ![e.document_id].content = OrmSet(e.document.content, @, e.arg)]
            /\ UNCHANGED queue
  /\ UNCHANGED <<response, citations, results, busVars, cacheVars, pureVars>>

\* the LLM gateway raises inside plan_document, draft_document or check_grammar
llm_raises(e) ==
  /\ e.task \in {"plan_document", "draft_document", "check_grammar"}
  /\ StageRaises(e)

Step(maxNodes, maxJobs) ==
  \/ \E r \in Requests, p \in Prompts, c \in LoopConfig \cup {NoConfig} :
       StartRoute(r[1], r[2], p, c, maxJobs)
  \/ \E r \in Requests : StopRoute(r[1], r[2])
  \/ \E r \in Requests, n \in NodeIds : RollbackRoute(r[1], r[2], n)
  \/ plan_document_begin(maxNodes)
  \/ draft_document_begin(maxNodes)
  \/ check_citations_begin(maxNodes)
  \/ check_grammar_begin(maxNodes)
  \/ check_readability_begin(maxNodes)
  \/ \E e \in running, o \in Outlines : plan_document_finish(e, o)
  \/ \E e \in running, c \in Drafts : draft_document_finish(e, c)
  \/ \E e \in running, r \in CitationCounts :
       check_citations_finish(e, validate_bibliography(r[1], r[2]))
  \/ \E e \in running, n \in GrammarErrorCounts :
       \E c \in Corrected \cup {e.arg} : check_grammar_finish(e, n, c)
  \/ \E e \in running, s \in Scores : check_readability_finish(e, s)
  \/ \E e \in running : llm_raises(e)

Next == Step(MaxNodes, MaxJobs)

Spec == Init /\ [][Next]_vars

\* the engine when the owner starts the workflow twice and every LLM call
\* answers and every gate passes: two pipelines of one document side by side
NextConcurrent ==
  \/ \E p \in Prompts : StartRoute("u1", "d1", p, NoConfig, ConcurrentJobs)
  \/ plan_document_begin(ConcurrentNodes)
  \/ draft_document_begin(ConcurrentNodes)
  \/ check_citations_begin(ConcurrentNodes)
  \/ check_grammar_begin(ConcurrentNodes)
  \/ check_readability_begin(ConcurrentNodes)
  \/ \E e \in running, o \in Outlines : plan_document_finish(e, o)
  \/ \E e \in running, c \in Drafts : draft_document_finish(e, c)
  \/ \E e \in running : check_citations_finish(e, validate_bibliography(0, 0))
  \/ \E e \in running :
       \E c \in Corrected \cup {e.arg} : check_grammar_finish(e, GrammarErrorCeiling, c)
  \/ \E e \in running :
       check_readability_finish(e, e.document.config.readability_threshold)

SpecConcurrent == Init /\ [][NextConcurrent]_vars

\* validate_bibliography on its own: a text's citations in, the summary out
InitValidator ==
  /\ InitWorkflow
  /\ citations \in SeqsUpTo(Citations, MaxCitations)
  /\ results = NoResult
  /\ InitBus
  /\ IdleCache
  /\ IdlePure

ValidateBibliography ==
  /\ results = NoResult
  /\ results' = validate_bibliography(Len(citations), valid_citations(citations))
  /\ UNCHANGED <<workflowVars, citations, busVars, cacheVars, pureVars>>

NextValidator == ValidateBibliography

SpecValidator == InitValidator /\ [][NextValidator]_vars

\* the engine with one job at a time and a longer node history
NextRetry == Step(RetryNodes, RetryJobs)

SpecRetry == Init /\ [][NextRetry]_vars

\* the engine when the owner starts the workflow of d1 twice and the two Plan
\* stages return different outlines; a gate may fail and roll back
RollbackOutlines == {"o1", "o2"}

NextRollback ==
  \/ \E p \in Prompts : StartRoute("u1", "d1", p, NoConfig, RollbackJobs)
  \/ plan_document_begin(RollbackNodes)
  \/ draft_document_begin(RollbackNodes)
  \/ check_citations_begin(RollbackNodes)
  \/ check_grammar_begin(RollbackNodes)
  \/ check_readability_begin(RollbackNodes)
  \/ \E e \in running, o \in RollbackOutlines : plan_document_finish(e, o)
  \/ \E e \in running, c \in Drafts : draft_document_finish(e, c)
  \/ \E e \in running, r \in {<<0, 0>>, <<5, 3>>} :
       check_citations_finish(e, validate_bibliography(r[1], r[2]))
  \/ \E e \in running, n \in GrammarErrorCounts :
       check_grammar_finish(e, n, e.arg)
  \/ \E e \in running, s \in {69, 71} : check_readability_finish(e, s)
  \/ \E e \in running : llm_raises(e)

SpecRollback == Init /\ [][NextRollback]_vars

\* the engine with a worker that executes every task it is given and calls
\* that all return or raise; nobody stops a workflow or asks for a rollback
BeginStage ==
  \/ plan_document_begin(LiveNodes)
  \/ draft_document_begin(LiveNodes)
  \/ check_citations_begin(LiveNodes)
  \/ check_grammar_begin(LiveNodes)
  \/ check_readability_begin(LiveNodes)

\* the call a running stage waits for returns or raises
FinishStage ==
  \/ \E e \in running, o \in Outlines : plan_document_finish(e, o)
  \/ \E e \in running, c \in Drafts : draft_document_finish(e, c)
  \/ \E e \in running, r \in CitationCounts :
       check_citations_finish(e, validate_bibliography(r[1], r[2]))
  \/ \E e \in running, n \in GrammarErrorCounts :
       \E c \in Corrected \cup {e.arg} : check_grammar_finish(e, n, c)
  \/ \E e \in running, s \in Scores : check_readability_finish(e, s)
  \/ \E e \in running : llm_raises(e)

NextLive ==
  \/ \E p \in Prompts, c \in LoopConfig \cup {NoConfig} :
       StartRoute("u1", "d1", p, c, LiveJobs)
  \/ BeginStage
  \/ FinishStage

\* the Celery worker takes every task of the queue, and every awaited call ends
SpecLive ==
  Init /\ [][NextLive]_vars /\ WF_vars(BeginStage) /\ WF_vars(FinishStage)

\* ------------------------------------------------- websocket event bus
\* core/websocket_manager.py.  A connection id (uuid4) is the number of the
\* socket in `sockets`.  An await of websocket.send_text may suspend the
\* coroutine; the text is handed to the socket when send_text is called.  A
\* set is iterated in the order of its table, taken as ascending connection
\* id; the iterator raises RuntimeError at next() when the size of the set
\* differs from the size at the start of the iteration.
Messages ==
  {[type |-> "node_status_update",
    node |-> [id |-> 1, type |-> PLAN, status |-> PASS]]}

\* the three dictionaries of the ConnectionManager as one value
Manager ==
  [active_connections |-> active_connections,
   document_subscriptions |-> document_subscriptions,
   connection_documents |-> connection_documents]

Without(f, k) == [x \in DOMAIN f \ {k} |-> f[x]]

With(f, k, v) == [x \in DOMAIN f \cup {k} |-> IF x = k THEN v ELSE f[x]]

\* mutant: the document's key is kept when its last subscriber leaves
disconnect_keeps_empty_set(m, connection_id) ==
  IF connection_id \notin m.active_connections
    THEN m
    ELSE LET document_id ==
               IF connection_id \in DOMAIN m.connection_documents
                 THEN m.connection_documents[connection_id]
                 ELSE NoDocument
             subs == m.document_subscriptions
         IN [active_connections |-> m.active_connections \ {connection_id},
             document_subscriptions |->
               IF document_id \in DOMAIN subs
                 THEN [subs EXCEPT ![document_id] = @ \ {connection_id}]
                 ELSE subs,
             connection_documents |-> Without(m.connection_documents, connection_id)]

\* ConnectionManager.disconnect
disconnect(m, connection_id) ==
  IF connection_id \notin m.active_connections
    THEN m
    ELSE LET document_id ==
               IF connection_id \in DOMAIN m.connection_documents
                 THEN m.connection_documents[connection_id]
                 ELSE NoDocument
             subs == m.document_subscriptions
             discarded ==
               IF document_id \in DOMAIN subs
                 THEN [subs EXCEPT ![document_id] = @ \ {connection_id}]
                 ELSE subs
         IN [active_connections |-> m.active_connections \ {connection_id},
             document_subscriptions |->
               IF document_id \in DOMAIN discarded /\ discarded[document_id] = {}
                 THEN Without(discarded, document_id)
                 ELSE discarded,
             connection_documents |-> Without(m.connection_documents, connection_id)]

\* the loop over disconnected_connections that ends broadcast_to_document
RECURSIVE disconnect_all(_, _)
disconnect_all(m, disconnected_connections) ==
  IF disconnected_connections = <<>>
    THEN m
    ELSE disconnect_all(disconnect(m, Head(disconnected_connections)),
                        Tail(disconnected_connections))

\* a suspended iteration holds the set object it started on: once the
\* document's key is deleted, that object is empty and no longer the one a
\* later connect subscribes to
Detach(bs, subs) ==
  {IF b.document_id \in DOMAIN subs THEN b ELSE [b EXCEPT !.detached = TRUE] :
     b \in bs}

\* the manager's dictionaries become m
SetManager(m) ==
  /\ active_connections' = m.active_connections
  /\ document_subscriptions' = m.document_subscriptions
  /\ connection_documents' = m.connection_documents

\* ConnectionManager.connect, called by WebSocketHandler.handle_connection:
\* register, then send_personal_message(connection_established), which
\* disconnects the connection again when the socket is already closed
Connect(document_id, open, maxConnections) ==
  /\ Len(sockets) < maxConnections
  /\ LET connection_id == Len(sockets) + 1
         registered ==
           [active_connections |-> active_connections \cup {connection_id},
            document_subscriptions |->
              With(document_subscriptions, document_id,
                   IF document_id \in DOMAIN document_subscriptions
                     THEN document_subscriptions[document_id] \cup {connection_id}
                     ELSE {connection_id}),
            connection_documents |->
              With(connection_documents, connection_id, document_id)]
     IN /\ sockets' =
             Append(sockets,
                    [document_id |-> document_id, open |-> open,
                     received |-> IF open THEN <<ConnectionEstablished>> ELSE <<>>])
        /\ SetManager(IF open THEN registered ELSE disconnect(registered, connection_id))
  /\ UNCHANGED <<broadcasts, published, workflowVars, validatorVars, cacheVars, pureVars>>

\* the client goes away: later sends on the socket raise
ClientCloses(connection_id) ==
  /\ connection_id \in 1..Len(sockets)
  /\ sockets[connection_id].open
  /\ sockets' = [sockets EXCEPT ![connection_id].open = FALSE]
  /\ UNCHANGED <<active_connections, document_subscriptions, connection_documents,
                 broadcasts, published, workflowVars, validatorVars, cacheVars, pureVars>>

\* WebSocketHandler.handle_connection: receive_text raised WebSocketDisconnect
HandlerDisconnect(connection_id) ==
  /\ connection_id \in active_connections
  /\ ~sockets[connection_id].open
  /\ LET m == disconnect(Manager, connection_id)
     IN /\ SetManager(m)
        /\ broadcasts' = Detach(broadcasts, m.document_subscriptions)
  /\ UNCHANGED <<sockets, published, workflowVars, validatorVars, cacheVars, pureVars>>

\* one turn of the loop of broadcast_to_document for connection_id: the
\* membership test and send_text with its except branch
SendTo(b, connection_id, pub) ==
  LET active == connection_id \in active_connections
      sent == active /\ sockets[connection_id].open
      failed == active /\ ~sockets[connection_id].open
  IN /\ sockets' =
          IF sent
            THEN [sockets EXCEPT ![connection_id].received = Append(@, b.event)]
            ELSE sockets
     /\ broadcasts' =
          (broadcasts \ {b}) \cup
          {[b EXCEPT !.position = connection_id,
                     !.disconnected_connections =
                        IF failed THEN Append(@, connection_id) ELSE @]}
     /\ published' =
          IF failed
            THEN [pub EXCEPT ![b.event].failed = @ \cup {connection_id}]
            ELSE pub
     /\ UNCHANGED <<active_connections, document_subscriptions, connection_documents>>

\* ConnectionManager.broadcast_to_document (through send_node_update) up to
\* its first send_text
Publish(message, document_id, maxEvents) ==
  /\ Len(published) < maxEvents
  /\ LET event == Len(published) + 1
         subscribed == document_id \in DOMAIN document_subscriptions
         subscribers ==
           IF subscribed THEN document_subscriptions[document_id] ELSE {}
         pub ==
           Append(published,
                  [document_id |-> document_id, message |-> message,
                   subscribers |-> subscribers, failed |-> {},
                   outcome |-> IF subscribed THEN "in_flight" ELSE "returned"])
         b == [event |-> event, document_id |-> document_id,
               used |-> Cardinality(subscribers), position |-> 0,
               disconnected_connections |-> <<>>, detached |-> FALSE]
     IN \/ /\ ~subscribed
           /\ published' = pub
           /\ UNCHANGED <<active_connections, document_subscriptions,
                          connection_documents, sockets, broadcasts>>
        \/ /\ subscribed
           /\ \E c \in subscribers :
                /\ \A x \in subscribers : c <= x
                /\ SendTo(b, c, pub)
  /\ UNCHANGED <<workflowVars, validatorVars, cacheVars, pureVars>>

\* the set iterator's check at next()
SetChangedSize(b) ==
  IF b.detached \/ b.document_id \notin DOMAIN document_subscriptions
    THEN TRUE
    ELSE Cardinality(document_subscriptions[b.document_id]) # b.used

\* what the iteration of b has still to visit
Remaining(b) ==
  IF SetChangedSize(b)
    THEN {}
    ELSE {c \in document_subscriptions[b.document_id] : c > b.position}

\* broadcast_to_document resumes after a send_text and takes the next turn
\* of its loop: the iterator raises, or yields the next subscriber, or is
\* exhausted and the failed connections are disconnected
BroadcastResume(b) ==
  /\ b \in broadcasts
  /\ \/ /\ SetChangedSize(b)
        /\ broadcasts' = broadcasts \ {b}
        /\ published' = [published EXCEPT ![b.event].outcome = "raised"]
        /\ UNCHANGED <<active_connections, document_subscriptions,
                       connection_documents, sockets>>
     \/ /\ ~SetChangedSize(b)
        /\ \E c \in Remaining(b) :
             /\ \A x \in Remaining(b) : c <= x
             /\ SendTo(b, c, published)
     \/ /\ ~SetChangedSize(b)
        /\ Remaining(b) = {}
        /\ LET m == disconnect_all(Manager, b.disconnected_connections)
           IN /\ SetManager(m)
              /\ broadcasts' = Detach(broadcasts \ {b}, m.document_subscriptions)
        /\ published' = [published EXCEPT ![b.event].outcome = "returned"]
        /\ UNCHANGED sockets
  /\ UNCHANGED <<workflowVars, validatorVars, cacheVars, pureVars>>

NextBus ==
  \/ \E d \in DocIds, open \in BOOLEAN : Connect(d, open, MaxConnections)
  \/ \E c \in 1..MaxConnections : ClientCloses(c)
  \/ \E c \in 1..MaxConnections : HandlerDisconnect(c)
  \/ \E message \in Messages, d \in DocIds : Publish(message, d, MaxEvents)
  \/ \E b \in broadcasts : BroadcastResume(b)

SpecBus == Init /\ [][NextBus]_vars

\* --------------------------------------------------- two documents
\* Two documents of one owner, their workflows and their subscribers: the
\* engine and the event bus of the sections above.  The engine never uses the
\* ConnectionManager and the ConnectionManager never uses the database or the
\* broker, so every step is a step of one of the two with the other at rest;
\* the specification lets the bus act while no workflow has been started and
\* lets workflows start while nobody has connected or published.
WorkflowsAtRest == nodes = <<>> /\ queue = <<>> /\ running = {}

BusAtRest == sockets = <<>> /\ published = <<>>

InitDocuments ==
  /\ \E cfg \in LoopConfig :
       docs = [d \in DocIds |->
                 [user_id |-> "u1", status |-> IDLE, content |-> "", config |-> cfg]]
  /\ nodes = <<>>
  /\ queue = <<>>
  /\ running = {}
  /\ response = [op |-> "none", code |-> 0, success |-> FALSE, task_id |-> NoTask]
  /\ citations = <<>>
  /\ results = NoResult
  /\ InitBus
  /\ IdleCache
  /\ IdlePure

NextDocuments ==
  \/ \E d \in DocIds, p \in Prompts :
       BusAtRest /\ StartRoute("u1", d, p, NoConfig, DocumentsJobs)
  \/ \E d \in DocIds : StopRoute("u1", d)
  \/ \E d \in DocIds, n \in NodeIds : RollbackRoute("u1", d, n)
  \/ plan_document_begin(DocumentsNodes)
  \/ draft_document_begin(DocumentsNodes)
  \/ check_citations_begin(DocumentsNodes)
  \/ check_grammar_begin(DocumentsNodes)
  \/ check_readability_begin(DocumentsNodes)
  \/ \E e \in running, o \in Outlines : plan_document_finish(e, o)
  \/ \E e \in running, c \in Drafts : draft_document_finish(e, c)
  \/ \E e \in running, r \in {<<0, 0>>, <<5, 3>>} :
       check_citations_finish(e, validate_bibliography(r[1], r[2]))
  \/ \E e \in running : check_grammar_finish(e, GrammarErrorCeiling, e.arg)
  \/ \E e \in running :
       check_readability_finish(e, e.document.config.readability_threshold)
  \/ \E d \in DocIds, open \in BOOLEAN :
       WorkflowsAtRest /\ Connect(d, open, DocumentsConnections)
  \/ \E c \in 1..DocumentsConnections : ClientCloses(c)
  \/ \E c \in 1..DocumentsConnections : HandlerDisconnect(c)
  \/ \E message \in Messages, d \in DocIds :
       WorkflowsAtRest /\ Publish(message, d, DocumentsEvents)
  \/ \E b \in broadcasts : BroadcastResume(b)

SpecDocuments == InitDocuments /\ [][NextDocuments]_vars

\* ------------------------------------------- DOI resolution and the cache
\* core/citation_validator.py validate_doi and core/cache.py.  A string is a
\* sequence of tokens: a blank, one of the two URL prefixes, or the DOI proper
\* in one spelling.  Redis, when it was reachable at start-up, stays reachable
\* and keeps a key until its expiry; the in-process dictionary never expires.
Blank == " "

DoiOrg == "https://doi.org/"

DxDoiOrg == "http://dx.doi.org/"

DoiStrings ==
  {<<"10.1/x">>, <<"10.1/X">>, <<"10.2/y">>,
   <<Blank, "10.1/x", Blank>>,
   <<DoiOrg, "10.1/x">>,
   <<DxDoiOrg, "10.1/x">>}

\* str.strip()
RECURSIVE lstrip(_)
lstrip(str) ==
  IF str # <<>> /\ Head(str) = Blank THEN lstrip(Tail(str)) ELSE str

RECURSIVE rstrip(_)
rstrip(str) ==
  IF str # <<>> /\ str[Len(str)] = Blank
    THEN rstrip(SubSeq(str, 1, Len(str) - 1))
    ELSE str

strip(str) == rstrip(lstrip(str))

\* str.replace(old, "")
replace(str, old) == SelectSeq(str, LAMBDA token : token # old)

\* str.lower()
lower(str) ==
  [i \in DOMAIN str |-> IF str[i] = "10.1/X" THEN "10.1/x" ELSE str[i]]

\* validate_doi: clean_doi
clean_doi(doi) == replace(replace(strip(doi), DoiOrg), DxDoiOrg)

\* CacheManager._get_key
get_key(prefix, identifier) == <<"ai_writing", prefix, identifier>>

NoMetadata == [none |-> TRUE]

NoExpiry == 0 - 1

\* CacheManager.get: a Redis key is gone once its expiry has passed
cache_get(c, key, t) ==
  IF key \in DOMAIN c /\ (c[key].expires = NoExpiry \/ t < c[key].expires)
    THEN c[key].value
    ELSE NoMetadata

\* CacheManager.set: setex(key, expire, value) on Redis, a plain store in
\* the in-process dictionary
cache_set(c, key, value, expire, t) ==
  [k \in DOMAIN c \cup {key} |->
     IF k = key
       THEN [value |-> value, set_at |-> t, expire |-> expire,
             expires |-> IF available THEN t + expire ELSE NoExpiry]
       ELSE c[k]]

get_cached_citation(c, doi, t) == cache_get(c, get_key("citation", doi), t)

\* mutant: the metadata is not stored
cache_citation_dropped(c, doi, metadata, t) == c

cache_citation(c, doi, metadata, t) ==
  cache_set(c, get_key("citation", doi), metadata, CitationExpire, t)

\* what GET /works/{doi} may answer; the service does not tell apart the
\* spellings of a DOI
ServiceOutcomes == {"200", "404", "error"}

Work(doi) == [title |-> <<"title of", lower(doi)>>]

\* validate_doi: the metadata built from a 200 answer
Metadata(doi, work, t) ==
  [doi |-> doi, title |-> work.title, url |-> <<DoiOrg>> \o doi,
   is_valid |-> TRUE, validation_date |-> t]

\* validate_doi as one step (it has no suspension the event loop can use),
\* with the answer of the service in case it is asked
validate_doi(doi, outcome) ==
  /\ Len(resolved) < MaxResolves
  /\ LET clean == clean_doi(doi)
         cached_metadata == get_cached_citation(cache, clean, now)
         metadata == Metadata(clean, Work(clean), now)
     IN IF cached_metadata # NoMetadata
          THEN /\ resolved' =
                    Append(resolved,
                           [doi |-> doi, at |-> now, called |-> FALSE,
                            valid |-> TRUE, metadata |-> cached_metadata])
               /\ UNCHANGED cache
          ELSE IF outcome = "200"
            THEN /\ cache' = cache_citation(cache, clean, metadata, now)
                 /\ resolved' =
                      Append(resolved,
                             [doi |-> doi, at |-> now, called |-> TRUE,
                              valid |-> TRUE, metadata |-> metadata])
            ELSE /\ resolved' =
                      Append(resolved,
                             [doi |-> doi, at |-> now, called |-> TRUE,
                              valid |-> FALSE, metadata |-> NoMetadata])
                 /\ UNCHANGED cache
  /\ UNCHANGED <<available, now, workflowVars, validatorVars, busVars, pureVars>>

\* time passes
Tick ==
  /\ now < MaxTicks * TickSeconds
  /\ now' = now + TickSeconds
  /\ UNCHANGED <<available, cache, resolved, workflowVars, validatorVars, busVars, pureVars>>

\* CacheManager(): Redis answered the ping, or it did not
InitCache ==
  /\ InitWorkflow
  /\ citations = <<>>
  /\ results = NoResult
  /\ InitBus
  /\ available \in BOOLEAN
  /\ cache = <<>>
  /\ now = 0
  /\ resolved = <<>>
  /\ IdlePure

NextResolver ==
  \/ \E doi \in DoiStrings, outcome \in ServiceOutcomes : validate_doi(doi, outcome)
  \/ Tick

SpecResolver == InitCache /\ [][NextResolver]_vars

\* clean_doi on its own: a string in, the cleaned string out
DoiTokens == {Blank, DoiOrg, DxDoiOrg, "10.1/x", "10.1/X"}

InitNormalize ==
  /\ InitWorkflow
  /\ citations = <<>>
  /\ results = NoResult
  /\ InitBus
  /\ IdleCache
  /\ doi_string \in SeqsUpTo(DoiTokens, MaxDoiTokens)
  /\ normalized = NotCleaned
  /\ text = <<>>
  /\ analysis = NoResult

CleanDoi ==
  /\ normalized = NotCleaned
  /\ normalized' = clean_doi(doi_string)
  /\ UNCHANGED <<workflowVars, validatorVars, busVars, cacheVars, doi_string, text, analysis>>

NextNormalize == CleanDoi

SpecNormalize == InitNormalize /\ [][NextNormalize]_vars

\* ------------------------------------------------------- the cache facade
\* core/cache.py on its own.  A user id is a uuid4 string, one token of an
\* identifier; the keys are built with _get_key.  The per-user entries are
\* stored with set() and its default expiry, as no helper exists for them.
UserIds == {"u1", "u2"}

\* namespace, identifier and expiry of the entries that are stored
Entries ==
  {<<"citation", <<"10.1/x">>, CitationExpire>>,
   <<"crossref_search", <<"q", ":", "1">>, CrossrefSearchExpire>>,
   <<"workflow_status", <<"d1">>, WorkflowStatusExpire>>,
   <<"llm_response", <<"h1">>, LlmResponseExpire>>,
   <<"readability", <<"h2">>, ReadabilityExpire>>,
   <<"user", <<"u1", ":", "settings">>, DefaultExpire>>,
   <<"user", <<"profile", ":", "u1">>, DefaultExpire>>,
   <<"user", <<"u2", ":", "settings">>, DefaultExpire>>}

\* the value that is stored
Payload == [data |-> "v1"]

\* CacheManager.exists
cache_exists(c, key, t) ==
  key \in DOMAIN c /\ (c[key].expires = NoExpiry \/ t < c[key].expires)

\* user_id in key / the glob ai_writing:*{user_id}*
KeyMatches(key, user_id) ==
  /\ key[1] = "ai_writing"
  /\ \E i \in DOMAIN key[3] : key[3][i] = user_id

\* mutant: only one of the matching keys is deleted
clear_user_cache_first(c, user_id) ==
  IF \E x \in DOMAIN c : KeyMatches(x, user_id)
    THEN [k \in DOMAIN c \ {CHOOSE x \in DOMAIN c : KeyMatches(x, user_id)} |-> c[k]]
    ELSE c

\* mutant: every key of the application is cleared
clear_user_cache_all(c, user_id) ==
  [k \in {x \in DOMAIN c : x[1] # "ai_writing"} |-> c[k]]

\* CacheManager.clear_user_cache: the store after the matching keys are deleted
clear_user_cache(c, user_id) ==
  [k \in {x \in DOMAIN c : ~KeyMatches(x, user_id)} |-> c[k]]

\* one of the cache_* helpers, or set() for a per-user key
StoreEntry(entry) ==
  /\ cache' = cache_set(cache, get_key(entry[1], entry[2]), Payload, entry[3], now)
  /\ UNCHANGED <<available, now, resolved, workflowVars, validatorVars, busVars, pureVars>>

ClearUser(user_id) ==
  /\ cache' = clear_user_cache(cache, user_id)
  /\ UNCHANGED <<available, now, resolved, workflowVars, validatorVars, busVars, pureVars>>

CacheTick ==
  /\ now < CacheTicks * TickSeconds
  /\ now' = now + TickSeconds
  /\ UNCHANGED <<available, cache, resolved, workflowVars, validatorVars, busVars, pureVars>>

NextCache ==
  \/ \E entry \in Entries : StoreEntry(entry)
  \/ \E u \in UserIds : ClearUser(u)
  \/ CacheTick

SpecCache == InitCache /\ [][NextCache]_vars

\* ------------------------------------------------- the readability analyzer
\* core/readability_analyzer.py.  A text is a sequence of characters; a Chinese
\* character is written by its pinyin ("ni" is one character).  Numbers with a
\* fraction are pairs <<numerator, denominator>> over a positive denominator.

\* members of self.chinese_chars that occur in the texts
chinese_chars == {"ni", "hao", "shi"}

\* Chinese characters outside self.chinese_chars
OtherChinese == {"jie"}

\* the Chinese full stop
Juhao == "juhao"

IsSpace(ch) == ch \in {" ", "\n", "\t"}

\* \w of the re module
IsWordChar(ch) == ~IsSpace(ch) /\ ch \notin {".", "!", "?", "<", ">", Juhao}

IsVowel(ch) == ch \in {"a", "e", "i", "o", "u", "y", "A", "E", "I", "O", "U", "Y"}

CountIn(t, S) == Cardinality({i \in DOMAIN t : t[i] \in S})

\* not text or not text.strip()
IsBlankText(t) == \A i \in DOMAIN t : IsSpace(t[i])

\* _is_chinese_text: chinese_char_count / max(total_chars, 1) > 0.3
is_chinese_text(t) ==
  LET chinese_char_count == CountIn(t, chinese_chars)
      total_chars == Len(t) - CountIn(t, {" ", "\n"})
  IN 10 * chinese_char_count > 3 * (IF total_chars > 1 THEN total_chars ELSE 1)

\* re.sub(r'<[^>]+>', '', text), from position i on
RECURSIVE remove_tags(_, _)
remove_tags(t, i) ==
  IF i > Len(t) THEN <<>>
  ELSE IF t[i] = "<" /\ i + 1 <= Len(t) /\ \E j \in (i + 2)..Len(t) : t[j] = ">"
    THEN IF t[i + 1] = ">"
           THEN <<t[i]>> \o remove_tags(t, i + 1)
           ELSE remove_tags(t, 1 + CHOOSE j \in (i + 2)..Len(t) :
                                    /\ t[j] = ">"
                                    /\ \A k \in (i + 2)..(j - 1) : t[k] # ">")
    ELSE <<t[i]>> \o remove_tags(t, i + 1)

\* re.sub(r'\s+', ' ', text).strip(), from position i on
RECURSIVE collapse_spaces(_, _)
collapse_spaces(t, i) ==
  IF i > Len(t) THEN <<>>
  ELSE IF ~IsSpace(t[i]) THEN <<t[i]>> \o collapse_spaces(t, i + 1)
  ELSE IF i = 1 THEN collapse_spaces(t, i + 1)
  ELSE IF IsSpace(t[i - 1]) \/ \A j \in i..Len(t) : IsSpace(t[j])
    THEN collapse_spaces(t, i + 1)
    ELSE <<" ">> \o collapse_spaces(t, i + 1)

\* _clean_text
clean_text(t) == collapse_spaces(remove_tags(t, 1), 1)

\* _count_sentences_chinese / _count_sentences_english: the number of pieces
\* between terminators that are not blank (counted by their first character)
count_sentences(t, terminators) ==
  Cardinality({i \in DOMAIN t :
     /\ ~IsSpace(t[i]) /\ t[i] \notin terminators
     /\ ~\E j \in 1..(i - 1) :
           /\ ~IsSpace(t[j])
           /\ \A k \in j..i : t[k] \notin terminators})

\* re.findall(r'\b\w+\b', ...): the first positions of the words
WordStarts(t) ==
  {i \in DOMAIN t :
     IsWordChar(t[i]) /\ (IF i = 1 THEN TRUE ELSE ~IsWordChar(t[i - 1]))}

WordEnd(t, i) ==
  CHOOSE e \in i..Len(t) :
    /\ \A k \in i..e : IsWordChar(t[k])
    /\ IF e = Len(t) THEN TRUE ELSE ~IsWordChar(t[e + 1])

\* str.lower of one character
lower_char(ch) ==
  IF ch = "E" THEN "e" ELSE ch

\* _count_syllables of the word t[i..e]
count_syllables(t, i, e) ==
  LET groups == Cardinality({k \in i..e :
                   IsVowel(t[k]) /\ (IF k = i THEN TRUE ELSE ~IsVowel(t[k - 1]))})
      syllables == IF lower_char(t[e]) = "e" THEN groups - 1 ELSE groups
  IN IF syllables > 1 THEN syllables ELSE 1

RECURSIVE SumOver(_, _, _)
SumOver(t, starts, upto) ==
  IF upto = 0 THEN 0
  ELSE SumOver(t, starts, upto - 1)
         + (IF upto \in starts THEN count_syllables(t, upto, WordEnd(t, upto)) ELSE 0)

\* mutant: the score is returned as computed
clamp_score_none(score) == score

\* max(0, min(100, flesch_score))
clamp_score(score) ==
  IF score[1] > 100 * score[2] THEN <<100, 1>>
  ELSE IF score[1] < 0 THEN <<0, 1>>
  ELSE score

\* 206.835 - (1.015 * avg_sentence_length) - (84.6 * avg_syllables_per_word),
\* the averages taken over max(sentence_count, 1) and max(word_count, 1)
flesch(sentence_count, word_count, syllable_count) ==
  LET s == IF sentence_count > 1 THEN sentence_count ELSE 1
      w == IF word_count > 1 THEN word_count ELSE 1
  IN <<206835 * s * w - 1015 * word_count * w - 84600 * syllable_count * s,
       1000 * s * w>>

Metrics(is_chinese, sentence_count, word_count, syllable_count) ==
  [chinese |-> is_chinese,
   sentences |-> sentence_count,
   words |-> word_count,
   syllables |-> syllable_count,
   raw_score |-> flesch(sentence_count, word_count, syllable_count),
   flesch_score |-> clamp_score(flesch(sentence_count, word_count, syllable_count))]

\* the result for a blank text
EmptyMetrics ==
  [chinese |-> FALSE, sentences |-> 0, words |-> 0, syllables |-> 0,
   raw_score |-> <<0, 1>>, flesch_score |-> <<0, 1>>]

\* _analyze_english_text
analyze_english_text(t) ==
  LET cleaned_text == clean_text(t)
      starts == WordStarts(cleaned_text)
  IN Metrics(FALSE,
             count_sentences(cleaned_text, {".", "!", "?"}),
             Cardinality(starts),
             SumOver(cleaned_text, starts, Len(cleaned_text)))

\* jieba.cut: the text cut into consecutive pieces; cuts holds the positions
\* after which a piece ends.  Which cuts jieba makes depends on its dictionary.
PieceOf(cuts, k) ==
  IF \E c \in cuts : c < k
    THEN 1 + CHOOSE c \in cuts : c < k /\ \A d \in cuts : d < k => d <= c
    ELSE 1

\* the pieces with len(word.strip()) > 0, by their first position
KeptPieces(t, cuts) ==
  {PieceOf(cuts, k) : k \in {j \in DOMAIN t : ~IsSpace(t[j])}}

\* _analyze_chinese_text for one way of cutting the text
analyze_chinese_text(t, cuts) ==
  LET cleaned_text == clean_text(t)
      words == KeptPieces(cleaned_text, cuts)
      char_count == Cardinality({k \in DOMAIN cleaned_text :
                                   PieceOf(cuts, k) \in words})
  IN Metrics(TRUE,
             count_sentences(cleaned_text, {Juhao, "\n"}),
             Cardinality(words),
             char_count)

\* the characters of the texts that are analysed
Alphabet == {"e", "E", "b", " ", ".", "<", ">", "ni", "jie", Juhao}

\* "你好 world 世界 hello" and "hello world"
MixedText ==
  <<"ni", "hao", " ", "w", "o", "r", "l", "d", " ", "shi", "jie", " ",
    "h", "e", "l", "l", "o">>

LatinText == <<"h", "e", "l", "l", "o", " ", "w", "o", "r", "l", "d">>

Texts == SeqsUpTo(Alphabet, MaxTextLen) \cup {MixedText, LatinText}

InitAnalyzer ==
  /\ InitWorkflow
  /\ citations = <<>>
  /\ results = NoResult
  /\ InitBus
  /\ IdleCache
  /\ doi_string = <<>>
  /\ normalized = NotCleaned
  /\ text \in Texts
  /\ analysis = NoResult

\* analyze_text
AnalyzeText ==
  /\ analysis = NoResult
  /\ IF IsBlankText(text)
       THEN analysis' = EmptyMetrics
       ELSE IF is_chinese_text(text)
         THEN \E cuts \in SUBSET (1..(Len(clean_text(text)) - 1)) :
                analysis' = analyze_chinese_text(text, cuts)
         ELSE analysis' = analyze_english_text(text)
  /\ UNCHANGED <<workflowVars, validatorVars, busVars, cacheVars, doi_string, normalized, text>>

NextAnalyzer == AnalyzeText

SpecAnalyzer == InitAnalyzer /\ [][NextAnalyzer]_vars

\* ------------------------------------------------------------------ claims
GatingTypes == {CITATION, GRAMMAR, READABILITY}

\* the status a document is said to have while each stage executes
StageStatus(task) ==
  CASE task = "plan_document" -> PLANNING
    [] task = "draft_document" -> DRAFTING
    [] task = "check_citations" -> CITATION_CHECK
    [] task = "check_grammar" -> GRAMMAR_CHECK
    [] task = "check_readability" -> READABILITY_CHECK

NonTerminalStatus ==
  {PLANNING, DRAFTING, CITATION_CHECK, GRAMMAR_CHECK, READABILITY_CHECK}

FailedNodes(d, type) ==
  {i \in NodesOf(d) : nodes[i].type = type /\ nodes[i].status = FAIL}

\* the Fail nodes whose stage computed its gate: a gate failure increments the
\* node's retry_count, an error raised by the LLM call leaves it 0
GateFailedNodes(d, type) ==
  {i \in FailedNodes(d, type) : nodes[i].retry_count > 0}

\* the most recently created node of a type, 0 when there is none
LatestNode(d, type) ==
  LET S == {i \in NodesOf(d) : nodes[i].type = type}
  IN IF S = {} THEN 0 ELSE CHOOSE i \in S : \A j \in S : j <= i

JobsOf(d) == {k \in 1..Len(queue) : queue[k].document_id = d}

\* some start request of the step: the owner's, for document d
IsStart(d, prompt) ==
  \E r \in Requests, c \in LoopConfig \cup {NoConfig} :
    /\ r[2] = d
    /\ OwnedDocument(r[1], d)
    /\ StartRoute(r[1], d, prompt, c, MaxJobs)

\* C1: for every document and every gating stage type (Citation, Grammar,
\* Readability) the number of Fail nodes of that type never exceeds
\* config.max_retries + 1.
C1_FailNodesBounded ==
  \A d \in DOMAIN docs, type \in GatingTypes :
    Cardinality(FailedNodes(d, type)) <= docs[d].config.max_retries + 1

\* C2: once a gating stage has failed its gate more than max_retries times for
\* a document, the document is Failed and no stage job is queued for it.
C2_ExhaustionFailsDocument ==
  \A d \in DOMAIN docs, type \in GatingTypes :
    Cardinality(GateFailedNodes(d, type)) > docs[d].config.max_retries
      => docs[d].status = FAILED /\ JobsOf(d) = {}

\* C3: whenever a document is Done, its latest Readability node scored at least
\* config.readability_threshold, its latest Citation node has validation_rate
\* >= 0.8 or no citations (the node is Pass: the rate itself is not stored), and
\* its latest Grammar node has at most 5 errors.
C3_DoneMeansGatesPassed ==
  \A d \in DOMAIN docs :
    docs[d].status = DONE =>
      LET r == LatestNode(d, READABILITY)
          c == LatestNode(d, CITATION)
          g == LatestNode(d, GRAMMAR)
      IN /\ r # 0 /\ c # 0 /\ g # 0
         /\ nodes[r].metrics # NoResult
         /\ nodes[r].metrics.readability_score >= docs[d].config.readability_threshold
         /\ nodes[c].status = PASS
         /\ nodes[g].metrics # NoResult
         /\ nodes[g].metrics.grammar_errors <= 5

\* C4: at most one stage of a document is executing (has a Running node) at any
\* instant.
C4_OneRunningStagePerDocument ==
  \A d \in DOMAIN docs :
    Cardinality({i \in NodesOf(d) : nodes[i].status = RUNNING}) <= 1

\* C5: a start on a document in a non-terminal status fails with Conflict (409),
\* leaves the document's status unchanged and enqueues no Plan job.
C5_StartOnActiveIsConflict ==
  [][\A d \in DOMAIN docs, p \in Prompts :
       (docs[d].status \in NonTerminalStatus /\ IsStart(d, p))
         => /\ response'.code = 409
            /\ docs'[d].status = docs[d].status
            /\ queue' = queue]_vars

\* C6: a stage that was suspended in its call when stop was issued finishes
\* without setting its node to Pass, without changing the document and without
\* enqueuing a successor; the document stays Idle.
C6_StoppedStageWritesNothing ==
  [][\A e \in running :
       (/\ e.document # NoDocument
        /\ e.document.status # IDLE
        /\ docs[e.document_id].status = IDLE
        /\ e \notin running')
         => /\ nodes'[e.node].status # PASS
            /\ docs' = docs
            /\ queue' = queue]_vars

\* C7: whenever a stage starts executing for a document, the document's status
\* is the status of that stage (Plan: Planning, Draft: Drafting, Citation:
\* CitationCheck, Grammar: GrammarCheck, Readability: ReadabilityCheck).
\* Stated for documents that were not stopped (status not Idle), so that the
\* stage's own bookkeeping is what is checked.
C7_StatusIsStartedStage ==
  [][\A e \in running' \ running :
       docs'[e.document_id].status # IDLE
         => docs'[e.document_id].status = StageStatus(e.task)]_vars

C9_NotFoundIs404 ==
  [][\A r \in Requests :
       (/\ ~OwnedDocument(r[1], r[2])
        /\ \/ StopRoute(r[1], r[2])
           \/ \E p \in Prompts, c \in LoopConfig \cup {NoConfig} :
                StartRoute(r[1], r[2], p, c, MaxJobs))
         => /\ response'.code = 404
            /\ docs' = docs
            /\ queue' = queue]_vars

\* C10: every write to Document.content sets it to the content of a node of the
\* document that is Pass at that moment, and a stage execution that ends with
\* its node in Fail leaves the document's content and status unchanged.
C10_ContentOnlyFromPassNodes ==
  [][/\ \A d \in DOMAIN docs :
          docs'[d].content # docs[d].content
            => \E i \in 1..Len(nodes') :
                 /\ nodes'[i].document_id = d
                 /\ nodes'[i].status = PASS
                 /\ nodes'[i].content = docs'[d].content
     /\ \A e \in running \ running' :
          nodes'[e.node].status = FAIL
            => /\ docs'[e.document_id].content = docs[e.document_id].content
               /\ docs'[e.document_id].status = docs[e.document_id].status]_vars

\* C10 witness: a Readability node failed on the corrected text while the
\* document still holds the draft accepted before
C10_Witness ==
  \E i \in NodesOf("d1") :
    /\ nodes[i].type = READABILITY
    /\ nodes[i].status = FAIL
    /\ nodes[i].content = "g1"
    /\ docs["d1"].content = "c1"

C12_RetryCountCountsFailures ==
  \A d \in DOMAIN docs, type \in GatingTypes :
    \A i \in GateFailedNodes(d, type) :
      nodes[i].retry_count = Cardinality({j \in GateFailedNodes(d, type) : j <= i})

\* the stage tasks that have a gate
GatingTasks == {"check_citations", "check_grammar", "check_readability"}

\* C13: for every max_retries >= 1 and every gate, the first failure of that
\* gate for a document re-enqueues the Draft stage (so that a passing re-draft
\* can end the document Done with a Fail and a Pass node of that gate).
C13_FirstGateFailureRedrafts ==
  [][\A e \in running \ running' :
       (/\ e.task \in GatingTasks
        /\ nodes'[e.node].status = FAIL
        /\ nodes'[e.node].retry_count > 0
        /\ GateFailedNodes(e.document_id, nodes[e.node].type) = {})
         => /\ Len(queue') = Len(queue) + 1
            /\ queue'[Len(queue')].task = "draft_document"
            /\ queue'[Len(queue')].document_id = e.document_id]_vars

\* C14: the rollback route, called by the owner for a node of the document,
\* answers ok and re-enqueues Plan when the node is a Plan node, Draft when it
\* is a Draft node.
C14_RollbackToNodeRestarts ==
  [][\A r \in Requests, n \in NodeIds :
       (/\ OwnedDocument(r[1], r[2])
        /\ n \in NodesOf(r[2])
        /\ RollbackRoute(r[1], r[2], n))
         => /\ response'.code = 200
            /\ response'.success
            /\ nodes[n].type = PLAN
                 => /\ Len(queue') = Len(queue) + 1
                    /\ queue'[Len(queue')].task = "plan_document"
            /\ nodes[n].type = DRAFT
                 => /\ Len(queue') = Len(queue) + 1
                    /\ queue'[Len(queue')].task = "draft_document"]_vars

\* the jobs of a task that a step added to the queue
Enqueued(task) ==
  {k \in 1..Len(queue') :
     queue'[k].task = task /\ (k > Len(queue) \/ queue'[k] # queue[k])}

\* C15: the Citation stage marks its node Pass exactly when the text has no
\* citations or at least 80% of them are valid; on Pass it records
\* citation_count and enqueues Grammar, on Fail it does not enqueue Grammar.
C15_CitationGate ==
  [][\A e \in running, r \in CitationCounts :
       check_citations_finish(e, validate_bibliography(r[1], r[2]))
         => IF r[1] = 0 \/ r[2] * 10 >= 8 * r[1]
              THEN /\ nodes'[e.node].status = PASS
                   /\ nodes'[e.node].metrics = [citation_count |-> r[1]]
                   /\ queue' = Append(queue, Job("check_grammar", e.document_id, e.arg))
              ELSE /\ nodes'[e.node].status = FAIL
                   /\ Enqueued("check_grammar") = {}]_vars

\* C15 witness: one draft failed the gate, the next one passed it with exactly
\* four of five citations valid, and Grammar is enqueued
C15_Witness ==
  /\ \E i \in NodesOf("d1") : nodes[i].type = CITATION /\ nodes[i].status = FAIL
  /\ \E i \in NodesOf("d1") :
       /\ nodes[i].type = CITATION /\ nodes[i].status = PASS
       /\ nodes[i].metrics = [citation_count |-> 5]
  /\ \E k \in 1..Len(queue) : queue[k].task = "check_grammar"

\* C16: validate_bibliography returns validation_rate = valid_citations /
\* total_citations when there are citations, and 1.0 when the text has none.
C16_RateIsOneWithoutCitations ==
  results # NoResult =>
    IF results.total_citations > 0
      THEN results.validation_rate[1] * results.total_citations
             = results.valid_citations * results.validation_rate[2]
      ELSE results.validation_rate[1] = results.validation_rate[2]

\* the citations the contract counts valid: the numbered ones, and the
\* author-year ones whose best search match scores at least 80
ContractValid ==
  {i \in 1..Len(citations) :
     \/ citations[i].type = "numbered"
     \/ /\ citations[i].search.status = "ok"
        /\ citations[i].search.items # <<>>
        /\ citations[i].search.items[1].score >= 80}

\* C17: validate_bibliography counts every numbered citation valid, an
\* author-year citation valid exactly when its best search match scores >= 80,
\* and one with no match or a failed search invalid.
C17_ValidFromScoreEighty ==
  results # NoResult =>
    /\ results.total_citations = Len(citations)
    /\ results.valid_citations = Cardinality(ContractValid)

\* C18: the Grammar stage marks its node Pass exactly when grammar_errors <= 5;
\* on Pass it enqueues Readability with the corrected text, on Fail it does
\* not enqueue Readability.
C18_GrammarGate ==
  [][\A e \in running, n \in GrammarErrorCounts :
       \A c \in Corrected \cup {e.arg} :
         check_grammar_finish(e, n, c)
           => IF n <= 5
                THEN /\ nodes'[e.node].status = PASS
                     /\ nodes'[e.node].content = c
                     /\ queue' = Append(queue, Job("check_readability", e.document_id, c))
                ELSE /\ nodes'[e.node].status = FAIL
                     /\ Enqueued("check_readability") = {}]_vars

\* C18 witness: a Grammar node passed with exactly five errors and Readability
\* is enqueued with the corrected text
C18_Witness ==
  /\ \E i \in NodesOf("d1") :
       /\ nodes[i].type = GRAMMAR /\ nodes[i].status = PASS
       /\ nodes[i].metrics = [grammar_errors |-> 5]
       /\ nodes[i].content = "g1"
  /\ \E k \in 1..Len(queue) : queue[k] = Job("check_readability", "d1", "g1")

\* C19: the Readability stage marks its node Pass exactly when the score is at
\* least the readability_threshold of the configuration the stage read (equal
\* passes); on Pass the document becomes Done with the stage's text as content,
\* on Fail the document is left as it is.
C19_ReadabilityGate ==
  [][\A e \in running, s \in Scores :
       check_readability_finish(e, s)
         => IF s >= e.document.config.readability_threshold
              THEN /\ nodes'[e.node].status = PASS
                   /\ docs'[e.document_id].status = DONE
                   /\ docs'[e.document_id].content = e.arg
              ELSE /\ nodes'[e.node].status = FAIL
                   /\ docs' = docs]_vars

\* C20: when the LLM call of a stage raises, the stage is retried (its job is
\* submitted again, no retry_count touched) or, the cap reached, the document
\* becomes Failed.
C20_LlmErrorIsRetried ==
  [][\A e \in running :
       llm_raises(e)
         => \/ /\ queue' = Append(queue, Job(e.task, e.document_id, e.arg))
               /\ nodes'[e.node].retry_count = nodes[e.node].retry_count
            \/ docs'[e.document_id].status = FAILED]_vars

\* C21: the progress reported by status(document_id) lies in [0, 100] in every
\* reachable state of the document, also after rollbacks and restarts.
C21_ProgressWithinRange ==
  \A d \in DOMAIN docs :
    LET progress == get_workflow_status(d).progress
    IN progress[1] >= 0 /\ progress[1] <= 100 * progress[2]

\* C22: each time a stage sets its node to Pass or Fail, a node_status_update
\* event with that node's id, type and status is published for the document.
C22_NodeOutcomeIsPublished ==
  [][\A i \in 1..Len(nodes') :
       (/\ nodes'[i].status \in {PASS, FAIL}
        /\ i > Len(nodes) \/ nodes[i].status \notin {PASS, FAIL})
         => \E m \in (Len(published) + 1)..Len(published') :
              /\ published'[m].document_id = nodes'[i].document_id
              /\ published'[m].message.type = "node_status_update"
              /\ published'[m].message.node.id = i
              /\ published'[m].message.node.type = nodes'[i].type
              /\ published'[m].message.node.status = nodes'[i].status]_vars

\* event m is in the list of texts socket c has been handed
Received(c, m) == \E k \in DOMAIN sockets[c].received : sockets[c].received[k] = m

\* connection c is registered and its socket can still take a text
Reachable(c) == c \in active_connections /\ sockets[c].open

\* C23: two events published for the same document reach every subscriber
\* that receives both in the order they were published, also when two
\* publishes are in flight at once.
C23_EventsArriveInPublishOrder ==
  \A c \in DOMAIN sockets :
    \A i, j \in DOMAIN sockets[c].received :
      (/\ i < j
       /\ sockets[c].received[i] # ConnectionEstablished
       /\ sockets[c].received[j] # ConnectionEstablished)
        => sockets[c].received[i] < sockets[c].received[j]

\* C24: once a publish is over, every connection that was subscribed to its
\* document when it was called (and can still take a text) has been handed the
\* event, and no connection of another document is ever handed it.
C24_PublishReachesSubscribers ==
  \A m \in DOMAIN published :
    /\ published[m].outcome # "in_flight"
         => \A c \in published[m].subscribers : Reachable(c) => Received(c, m)
    /\ \A c \in DOMAIN sockets :
         Received(c, m) => sockets[c].document_id = published[m].document_id

\* C25: a publish in which a delivery failed returns normally, has removed
\* exactly the connections whose delivery failed, and has handed the event to
\* the other subscribers.
C25_FailedDeliveryIsContained ==
  [][\A m \in DOMAIN published' :
       (/\ published'[m].failed # {}
        /\ published'[m].outcome # "in_flight"
        /\ m \in DOMAIN published => published[m].outcome = "in_flight")
         => /\ published'[m].outcome = "returned"
            /\ active_connections' = active_connections \ published'[m].failed
            /\ \A c \in published'[m].subscribers \ published'[m].failed :
                 (c \in active_connections' /\ sockets'[c].open)
                   => \E k \in DOMAIN sockets'[c].received :
                        sockets'[c].received[k] = m]_vars

\* the stage a node's stage follows in the stage graph
PreviousStage(type) ==
  CASE type = DRAFT -> PLAN
    [] type = CITATION -> DRAFT
    [] type = GRAMMAR -> CITATION
    [] type = READABILITY -> GRAMMAR

\* C26: within a document a Draft node is created only after a Pass Plan node
\* exists, a Citation node only after a Pass Draft node, a Grammar node only
\* after a Pass Citation node, a Readability node only after a Pass Grammar node.
C26_NodesFollowStageGraph ==
  \A i \in 1..Len(nodes) :
    nodes[i].type # PLAN
      => \E j \in 1..(i - 1) :
           /\ nodes[j].document_id = nodes[i].document_id
           /\ nodes[j].type = PreviousStage(nodes[i].type)
           /\ nodes[j].status = PASS

\* C26 witness: a Readability stage has just created its node at the end of a
\* history that went through a rollback to Draft
C26_Witness ==
  /\ Len(nodes) > 5
  /\ nodes[Len(nodes)].type = READABILITY
  /\ nodes[Len(nodes)].status = RUNNING
  /\ \E i \in 1..Len(nodes) : nodes[i].status = FAIL /\ nodes[i].retry_count > 0

\* C27: a stage execution creates exactly one node when it starts and creates
\* none afterwards; when the execution has returned, its node is Pass or Fail
\* (also when the LLM call raised), and only nodes of executions still under
\* way are Running; no node is Pending.
C27_OneNodePerExecution ==
  [][/\ \A e \in running' \ running :
          /\ Len(nodes') = Len(nodes) + 1
          /\ e.node = Len(nodes')
     /\ \A e \in running \ running' :
          /\ Len(nodes') = Len(nodes)
          /\ nodes'[e.node].status \in {PASS, FAIL}
     /\ Len(nodes') # Len(nodes) => running' \ running # {}
     /\ \A i \in 1..Len(nodes') :
          nodes'[i].status \notin {PASS, FAIL}
            => /\ nodes'[i].status = RUNNING
               /\ \E e \in running' : e.node = i]_vars

\* C27 witness: the LLM call of a Grammar stage raised: its node is Fail without
\* a gate result and no execution is under way
C27_Witness ==
  /\ running = {}
  /\ \E i \in 1..Len(nodes) :
       /\ nodes[i].type = GRAMMAR
       /\ nodes[i].status = FAIL
       /\ nodes[i].retry_count = 0

\* what belongs to document d: its row, its nodes, its jobs, its subscribers,
\* the sockets connected to it and the events published for it
DocumentState(d) ==
  <<docs[d].status, docs[d].content,
    SelectSeq(nodes, LAMBDA n : n.document_id = d),
    SelectSeq(queue, LAMBDA j : j.document_id = d),
    {e \in running : e.document_id = d},
    IF d \in DOMAIN document_subscriptions THEN document_subscriptions[d] ELSE {},
    SelectSeq(sockets, LAMBDA w : w.document_id = d),
    {b \in broadcasts : b.document_id = d},
    SelectSeq(published, LAMBDA v : v.document_id = d)>>

\* the step is an operation on document d: a start, stop or rollback request
\* for d, a stage execution of d beginning or ending, a publish for d
\* beginning or going on
OperatedOn(d) ==
  \/ \E p \in Prompts : StartRoute("u1", d, p, NoConfig, DocumentsJobs)
  \/ StopRoute("u1", d)
  \/ \E n \in NodeIds : RollbackRoute("u1", d, n)
  \/ \E e \in (running' \ running) \cup (running \ running') : e.document_id = d
  \/ \E m \in DOMAIN published' :
       /\ published'[m].document_id = d
       /\ m \in DOMAIN published => published[m] # published'[m]
  \/ \E b \in broadcasts \ broadcasts' : b.document_id = d

\* C28: an operation on one document (start, stop, stage execution, rollback,
\* publish) leaves the status, content, nodes and subscribers of every other
\* document as they were, no step changes two documents, and an owner's start
\* is accepted whatever the other document is doing.
C28_DocumentsAreIsolated ==
  [][/\ \A d \in DocIds :
          OperatedOn(d)
            => \A x \in DocIds \ {d} : DocumentState(x)' = DocumentState(x)
     /\ Cardinality({d \in DocIds : DocumentState(d)' # DocumentState(d)}) <= 1
     /\ \A d \in DocIds, p \in Prompts :
          StartRoute("u1", d, p, NoConfig, DocumentsJobs)
            => /\ response'.success
               /\ response'.code = 200
               /\ docs'[d].status = PLANNING]_vars

\* C28 witness: the workflows of both documents are under way at once, one of
\* them after a rollback to Draft, the other stopped meanwhile
C28_Witness ==
  /\ \E i, j \in 1..Len(nodes) :
       /\ nodes[i].document_id = "d1"
       /\ nodes[j].document_id = "d2"
       /\ nodes[j].status = FAIL
  /\ docs["d1"].status = IDLE
  /\ docs["d2"].status # IDLE
  /\ running # {}

\* C29: after validate_doi has returned a record obtained from the external
\* service, every later call for the same DOI string made before the 24 hours
\* of the cache entry are over returns an equal record and does not call the
\* external service.
C29_ResolveIsCachedWithinTtl ==
  \A i, j \in DOMAIN resolved :
    (/\ i < j
     /\ resolved[i].called
     /\ resolved[i].valid
     /\ resolved[j].doi = resolved[i].doi
     /\ resolved[j].at < resolved[i].at + CitationExpire)
      => /\ ~resolved[j].called
         /\ resolved[j].valid
         /\ resolved[j].metadata = resolved[i].metadata

\* C29 witness: a DOI was fetched from the service and resolved again later,
\* within the 24 hours, from the cache
C29_Witness ==
  \E i, j \in DOMAIN resolved :
    /\ i < j
    /\ resolved[i].called
    /\ resolved[i].valid
    /\ resolved[j].doi = resolved[i].doi
    /\ resolved[i].at < resolved[j].at
    /\ resolved[j].at < resolved[i].at + CitationExpire
    /\ ~resolved[j].called

\* the canonical form of a DOI string: trimmed, the URL prefixes stripped,
\* lowercased
CanonicalDoi(doi) == lower(replace(replace(strip(doi), DoiOrg), DxDoiOrg))

\* C30: two DOI strings that differ only in letter case, surrounding blanks
\* or a leading https://doi.org/ or http://dx.doi.org/ prefix resolve through
\* the same cache entry: within the 24 hours the second is answered from the
\* cache with the record the first was given.
C30_SpellingsShareCacheEntry ==
  \A i, j \in DOMAIN resolved :
    (/\ i < j
     /\ resolved[i].called
     /\ resolved[i].valid
     /\ CanonicalDoi(resolved[j].doi) = CanonicalDoi(resolved[i].doi)
     /\ resolved[j].at < resolved[i].at + CitationExpire)
      => /\ ~resolved[j].called
         /\ resolved[j].metadata = resolved[i].metadata

\* C31: cleaning a DOI string is idempotent: cleaning the cleaned string
\* returns it unchanged.
C31_NormalisationIsIdempotent ==
  normalized # NotCleaned => clean_doi(normalized) = normalized

\* the keys stored for user u
UserKeys(u) == {k \in DOMAIN cache : KeyMatches(k, u)}

\* C32: right after clear_user(u), get of every key that was written for user
\* u returns the default (a miss) and exists returns false for it.
C32_ClearUserLeavesNoEntry ==
  [][\A u \in UserIds :
       ClearUser(u)
         => \A k \in UserKeys(u) :
              /\ cache_get(cache', k, now') = NoMetadata
              /\ ~cache_exists(cache', k, now')]_vars

\* C32 witness: a live entry of user u1 is in the store next to one of u2, so
\* that clear_user has something to remove
C32_Witness ==
  /\ \E k1, k2 \in UserKeys("u1") :
       k1 # k2 /\ cache_exists(cache, k1, now) /\ cache_exists(cache, k2, now)
  /\ \E k \in UserKeys("u2") : cache_exists(cache, k, now)
  /\ now > 0

\* C33: a value stored with an expiry is not returned by get once the expiry
\* has elapsed, with Redis and with the in-process dictionary.
C33_ExpiredEntryIsGone ==
  \A k \in DOMAIN cache :
    now >= cache[k].set_at + cache[k].expire
      => cache_get(cache, k, now) = NoMetadata

C34_ScoreWithinRange ==
  analysis # NoResult
    => /\ analysis.flesch_score[2] > 0
       /\ 0 <= analysis.flesch_score[1]
       /\ analysis.flesch_score[1] <= 100 * analysis.flesch_score[2]

\* C34 witness: a text without a sentence terminator was analysed and the
\* formula gave a score below 0
C34_Witness ==
  /\ analysis # NoResult
  /\ \A i \in DOMAIN text : text[i] \notin {".", Juhao}
  /\ analysis.raw_score[1] < 0
  /\ analysis.flesch_score = <<0, 1>>

\* C34 witness: the formula gave a score above 100
C34_WitnessAbove ==
  /\ analysis # NoResult
  /\ analysis.raw_score[1] > 100 * analysis.raw_score[2]
  /\ analysis.flesch_score = <<100, 1>>

\* the characters of a text that are Chinese
ChineseCount(t) == CountIn(t, chinese_chars \cup OtherChinese)

\* the characters of a text that are not whitespace
NonWhitespaceCount(t) == Len(t) - Cardinality({i \in DOMAIN t : IsSpace(t[i])})

\* C35: a text that is not blank takes the Chinese branch exactly when its
\* Chinese characters are more than 0.3 of its characters that are not
\* whitespace; "你好 world 世界 hello" takes the Chinese branch and
\* "hello world" the Latin one.
C35_BranchFollowsChineseShare ==
  (analysis # NoResult /\ ~IsBlankText(text))
    => /\ analysis.chinese
             <=> 10 * ChineseCount(text) > 3 * NonWhitespaceCount(text)
       /\ text = MixedText => analysis.chinese
       /\ text = LatinText => ~analysis.chinese

\* a stage execution e failed its gate in this step and rolled back: its node
\* is Fail with one retry more, within the retries its gate allows
RolledBack(e) ==
  /\ e \in running /\ e \notin running'
  /\ e.task \in {"check_citations", "check_grammar", "check_readability"}
  /\ nodes'[e.node].status = FAIL
  /\ nodes'[e.node].retry_count = nodes[e.node].retry_count + 1
  /\ \/ e.task = "check_citations"
     \/ nodes'[e.node].retry_count < docs[e.document_id].config.max_retries

\* the Plan nodes of document d with status Pass
PassPlans(d) ==
  {i \in DOMAIN nodes :
     nodes[i].document_id = d /\ nodes[i].type = PLAN /\ nodes[i].status = PASS}

\* C36: a rollback after a gate failure enqueues exactly one Draft job, for the
\* document of the failed stage, and the outline of the job is the content of
\* the Plan node with status Pass that was created last.
C36_RollbackEnqueuesOneDraft ==
  [][\A e \in running :
       RolledBack(e)
         => /\ Len(queue') = Len(queue) + 1
            /\ SubSeq(queue', 1, Len(queue)) = queue
            /\ queue'[Len(queue')].task = "draft_document"
            /\ queue'[Len(queue')].document_id = e.document_id
            /\ \E i \in PassPlans(e.document_id) :
                 /\ \A j \in PassPlans(e.document_id) : j <= i
                 /\ queue'[Len(queue')].arg = nodes[i].content]_vars

\* C36 witness: d1 has two Pass Plan nodes with different outlines, both Draft
\* jobs of the Plan stages were executed, a Citation node failed with a retry,
\* and a Draft job with the later outline is in the queue
C36_Witness ==
  /\ \E i, j \in PassPlans("d1") : i < j /\ nodes[i].content # nodes[j].content
  /\ Cardinality({i \in DOMAIN nodes : nodes[i].type = DRAFT}) = 2
  /\ \E i \in DOMAIN nodes :
       nodes[i].type = CITATION /\ nodes[i].status = FAIL /\ nodes[i].retry_count = 1
  /\ \E k \in DOMAIN queue :
       /\ queue[k].task = "draft_document"
       /\ \E i \in PassPlans("d1") :
            (\A j \in PassPlans("d1") : j <= i) /\ queue[k].arg = nodes[i].content

\* C37: every started workflow eventually reaches a terminal status, Done or
\* Failed, when every enqueued job is executed, every call returns or raises
\* and nobody stops it (followed as far as the node table of the model goes).
C37_WorkflowTerminates ==
  [](docs["d1"].status # IDLE
       => <>(docs["d1"].status \in {DONE, FAILED} \/ Len(nodes) >= LiveNodes))

\* C38: a broadcast that is suspended in a send while a connection subscribes
\* to or unsubscribes from its document still completes normally: it raises no
\* error, and it has handed the event to every connection that was subscribed
\* from its call to its end.
C38_BroadcastSurvivesChurn ==
  \A m \in DOMAIN published :
    /\ published[m].outcome # "raised"
    /\ published[m].outcome = "returned"
         => \A c \in published[m].subscribers \cap active_connections :
              sockets[c].open => Received(c, m)

====
